---- MODULE Spec2Model ----
(***************************************************************************)
(* A model of src/index.py: the card checker backend.                      *)
(*   - luhn_check, validate_card_format: pure functions over strings       *)
(*   - check_rate_limit: the per-client sliding window in request_counts   *)
(*   - the three POST handlers validate_card, validate_batch and           *)
(*     generate_cards                                                      *)
(* A Python str is a sequence of one-character strings.  Only ASCII        *)
(* characters are modelled.                                                *)
(***************************************************************************)
EXTENDS Integers, Sequences, FiniteSets, TLC

VARIABLES
    request_counts, \* index.py:20  ip -> list of admitted request times
    clock,          \* what time.time() returns
    current_year,   \* what datetime.now().year returns
    pending,        \* the call or request about to be served
    op,             \* the last completed call or request and what it returned
    nCalls,         \* per ip, how many check_rate_limit calls were started
    thr,            \* per worker thread, its position inside check_rate_limit
    admitted,       \* per ip, the times of all calls that returned True
    overlaps        \* how many calls began while another was in progress

vars == <<request_counts, clock, current_year, pending, op, nCalls, thr, admitted,
          overlaps>>

(***************************************************************************)
(* Python values and string methods                                        *)
(***************************************************************************)
None == "None"

Digits == <<"0", "1", "2", "3", "4", "5", "6", "7", "8", "9">>

DigitSet == {Digits[i] : i \in 1..10}

IsDigit(c) == c \in DigitSet

DigitVal(c) == (CHOOSE i \in 1..10 : Digits[i] = c) - 1

\* str(n) for 0 <= n <= 9
DigitStr(n) == Digits[n + 1]

Whitespace == {" "}

\* s[a:b] with 1-based inclusive bounds
Slice(s, a, b) == IF a > b THEN <<>> ELSE SubSeq(s, a, b)

\* str.strip()
RECURSIVE lstrip(_)
lstrip(s) ==
    IF s # <<>> /\ Head(s) \in Whitespace THEN lstrip(Tail(s)) ELSE s

RECURSIVE rstrip(_)
rstrip(s) ==
    IF s # <<>> /\ s[Len(s)] \in Whitespace
    THEN rstrip(Slice(s, 1, Len(s) - 1))
    ELSE s

strip(s) == rstrip(lstrip(s))

\* str.split(sep) for a one-character separator
RECURSIVE split(_, _)
split(s, sep) ==
    IF \A i \in 1..Len(s) : s[i] # sep
    THEN <<s>>
    ELSE LET i == CHOOSE j \in 1..Len(s) :
                    s[j] = sep /\ \A k \in 1..(j - 1) : s[k] # sep
         IN  <<Slice(s, 1, i - 1)>> \o split(Slice(s, i + 1, Len(s)), sep)

\* sep.join(parts)
RECURSIVE join(_, _)
join(parts, sep) ==
    IF parts = <<>> THEN <<>>
    ELSE IF Len(parts) = 1 THEN parts[1]
    ELSE parts[1] \o <<sep>> \o join(Tail(parts), sep)

\* re.sub(r'\D', '', s)
sub_nondigits(s) == SelectSeq(s, IsDigit)

\* str.zfill(width): zeros go after a leading sign
zfill(s, width) ==
    IF Len(s) >= width THEN s
    ELSE LET zeros == [i \in 1..(width - Len(s)) |-> "0"]
         IN  IF s # <<>> /\ s[1] \in {"+", "-"}
             THEN <<s[1]>> \o zeros \o Tail(s)
             ELSE zeros \o s

\* str.isdigit()
isdigit(s) == s # <<>> /\ \A i \in 1..Len(s) : IsDigit(s[i])

\* str.lower() on the characters the handlers compare
LowerChar(c) ==
    CASE c = "X" -> "x"
      [] c = "R" -> "r"
      [] c = "N" -> "n"
      [] c = "D" -> "d"
      [] OTHER   -> c

lower(s) == [i \in 1..Len(s) |-> LowerChar(s[i])]

\* the value of a run of digits and underscores, most significant first
RECURSIVE DecimalValue(_)
DecimalValue(s) ==
    IF s = <<>> THEN 0
    ELSE IF s[Len(s)] = "_" THEN DecimalValue(Slice(s, 1, Len(s) - 1))
    ELSE 10 * DecimalValue(Slice(s, 1, Len(s) - 1)) + DigitVal(s[Len(s)])

\* int(s): surrounding whitespace, one optional sign, then digits in which a
\* single underscore may stand between two digits.  ok = FALSE is ValueError.
int(s) ==
    LET t      == strip(s)
        signed == t # <<>> /\ t[1] \in {"+", "-"}
        body   == IF signed THEN Tail(t) ELSE t
        wellformed ==
            /\ body # <<>>
            /\ \A i \in 1..Len(body) : IsDigit(body[i]) \/ body[i] = "_"
            /\ IsDigit(body[1])
            /\ IsDigit(body[Len(body)])
            /\ \A i \in 1..(Len(body) - 1) : ~(body[i] = "_" /\ body[i + 1] = "_")
    IN  IF ~wellformed THEN [ok |-> FALSE, val |-> 0]
        ELSE [ok |-> TRUE,
              val |-> IF signed /\ t[1] = "-"
                      THEN 0 - DecimalValue(body)
                      ELSE DecimalValue(body)]

\* a digit string written as a tuple of numbers
D(ns) == [i \in 1..Len(ns) |-> DigitStr(ns[i])]

(***************************************************************************)
(* luhn_check  (index.py:37-54)                                            *)
(***************************************************************************)
\* the mutant doubles the digits the code leaves alone
luhn_term_shifted(d, i, parity) ==
    IF i % 2 # parity
    THEN (IF 2 * d > 9 THEN 2 * d - 9 ELSE 2 * d)
    ELSE d

\* lines 45-50: the contribution of digit d at 0-based index i
luhn_term(d, i, parity) ==
    IF i % 2 = parity
    THEN (IF 2 * d > 9 THEN 2 * d - 9 ELSE 2 * d)
    ELSE d

\* lines 44-50: the loop, from 1-based position k on
RECURSIVE luhn_total(_, _, _)
luhn_total(s, k, parity) ==
    IF k > Len(s) THEN 0
    ELSE luhn_term(DigitVal(s[k]), k - 1, parity) + luhn_total(s, k + 1, parity)

\* int(digit) raises on the first character that is no digit and the bare
\* except turns that into False
luhn_check(card_number) ==
    IF \E i \in 1..Len(card_number) : ~IsDigit(card_number[i])
    THEN FALSE
    ELSE luhn_total(card_number, 1, Len(card_number) % 2) % 10 = 0

(***************************************************************************)
(* validate_card_format  (index.py:56-101)                                 *)
(***************************************************************************)
\* the mutant lets month 0 through
month_error_zero(month) ==
    LET r == int(month)
    IN  IF ~r.ok THEN "Invalid month format"
        ELSE IF r.val < 0 \/ r.val > 12 THEN "Invalid month"
        ELSE None

\* lines 73-78: month is parts[1].zfill(2)
month_error(month) ==
    LET r == int(month)
    IN  IF ~r.ok THEN "Invalid month format"
        ELSE IF r.val < 1 \/ r.val > 12 THEN "Invalid month"
        ELSE None

\* lines 82-83
year_expanded(year) == IF Len(year) = 2 THEN <<"2", "0">> \o year ELSE year

\* lines 81-89: year is parts[2]
year_error(year, this_year) ==
    LET y == year_expanded(year)
        r == int(y)
    IN  IF ~r.ok THEN "Invalid year format"
        ELSE IF r.val < this_year \/ Len(y) # 4 THEN "Invalid or expired year"
        ELSE None

\* line 92
cvv_error(cvv) ==
    IF Len(cvv) < 3 \/ Len(cvv) > 4 \/ ~isdigit(cvv) THEN "Invalid CVV" ELSE None

\* the pair (record, error) the function returns
validate_card_format(card_data, this_year) ==
    LET raw_parts == split(card_data, "|")
        parts     == [i \in 1..Len(raw_parts) |-> strip(raw_parts[i])]
    IN  IF Len(parts) < 4 THEN [rec |-> None, err |-> "Invalid format"]
        ELSE
        LET card_number == sub_nondigits(parts[1])
            month       == zfill(parts[2], 2)
            year        == parts[3]
            cvv         == parts[4]
        IN  IF Len(card_number) < 13 \/ Len(card_number) > 19
            THEN [rec |-> None, err |-> "Invalid card number length"]
            ELSE IF month_error(month) # None
            THEN [rec |-> None, err |-> month_error(month)]
            ELSE IF year_error(year, this_year) # None
            THEN [rec |-> None, err |-> year_error(year, this_year)]
            ELSE IF cvv_error(cvv) # None
            THEN [rec |-> None, err |-> cvv_error(cvv)]
            ELSE [rec |-> [card_number |-> card_number,
                           month       |-> month,
                           year        |-> year_expanded(year),
                           cvv         |-> cvv,
                           original    |-> card_data],
                  err |-> None]

(***************************************************************************)
(* State shared by every specification                                     *)
(***************************************************************************)
Keys == {"10.0.0.1", "10.0.0.2"}

Threads == {"t1", "t2"}

NoPending == [kind |-> "none", arg |-> <<>>]

NoOp == [name |-> "none", arg |-> <<>>, result |-> None]

IdleThread == [pc |-> "idle", ip |-> None, now |-> 0, kept |-> <<>>]

\* datetime.now().year at the time of the run
CurrentYears == {2026, 2031}

\* the module right after import: an empty defaultdict(list)
Idle ==
    /\ request_counts = [k \in Keys |-> <<>>]
    /\ clock = 0
    /\ op = NoOp
    /\ nCalls = [k \in Keys |-> 0]
    /\ thr = [t \in Threads |-> IdleThread]
    /\ admitted = [k \in Keys |-> <<>>]
    /\ overlaps = 0

(***************************************************************************)
(* SpecLuhn: one call of luhn_check on each input                          *)
(***************************************************************************)
MaxLuhnLen == 3

Vector1 == D(<<4, 5, 3, 2, 0, 1, 5, 1, 1, 2, 8, 3, 0, 3, 6, 6>>)

Vector2 == D(<<1, 2, 3, 4, 5, 6, 7, 8, 1, 2, 3, 4, 5, 6, 7, 8>>)

LuhnInputs ==
    UNION {[1..n -> DigitSet] : n \in 0..MaxLuhnLen}
    \cup UNION {[1..n -> {"4", "a", "-", " "}] : n \in 1..MaxLuhnLen}
    \cup UNION {[1..n -> {"0", "9"}] : n \in (MaxLuhnLen + 1)..(MaxLuhnLen + 3)}
    \cup {Vector1, Vector2}

InitLuhn ==
    /\ Idle
    /\ current_year \in CurrentYears
    /\ pending \in {[kind |-> "luhn_check", arg |-> s] : s \in LuhnInputs}

CallLuhn ==
    /\ pending.kind = "luhn_check"
    /\ op' = [name |-> "luhn_check", arg |-> pending.arg,
              result |-> luhn_check(pending.arg)]
    /\ pending' = NoPending
    /\ UNCHANGED <<request_counts, clock, current_year, nCalls, thr, admitted, overlaps>>

SpecLuhn == InitLuhn /\ [][CallLuhn]_vars

\* the reference: counting from the right, every second digit is doubled
RefTerm(d, fromRight) ==
    IF fromRight % 2 = 0
    THEN (IF 2 * d > 9 THEN 2 * d - 9 ELSE 2 * d)
    ELSE d

RECURSIVE RefSum(_, _)
RefSum(s, fromRight) ==
    IF fromRight > Len(s) THEN 0
    ELSE RefTerm(DigitVal(s[Len(s) - fromRight + 1]), fromRight)
         + RefSum(s, fromRight + 1)

RefLuhn(s) == RefSum(s, 1) % 10 = 0

AllDigits(s) == \A i \in 1..Len(s) : IsDigit(s[i])

\* C4: on every digit string luhn_check returns what the reference Luhn
\* computation returns (digits taken right to left, every second one doubled,
\* minus 9 above 9, valid iff the sum is 0 mod 10); 4532015112830366 is valid
\* and 1234567812345678 is not.
C4_LuhnMatchesReference ==
    (op.name = "luhn_check" /\ AllDigits(op.arg)) =>
        /\ op.result = RefLuhn(op.arg)
        /\ (op.arg = Vector1 => op.result = TRUE)
        /\ (op.arg = Vector2 => op.result = FALSE)

C4_Witness ==
    /\ op.name = "luhn_check"
    /\ op.arg = Vector1
    /\ op.result = TRUE

\* C5: luhn_check returns False for the empty string and for every input
\* that holds a character that is no digit (and it never raises: its result
\* is always a boolean).
C5_LuhnRejectsEmptyAndNonDigit ==
    op.name = "luhn_check" =>
        /\ op.result \in BOOLEAN
        /\ (op.arg = <<>> \/ ~AllDigits(op.arg)) => op.result = FALSE

(***************************************************************************)
(* SpecParse: one call of validate_card_format on each input               *)
(***************************************************************************)
Sp(s) == <<" ">> \o s \o <<" ">>

Number16 == D(<<4, 1, 1, 1, 1, 1, 1, 1, 1, 1, 1, 1, 1, 1, 1, 1>>)

NumberDashed ==
    D(<<4, 1, 1, 1>>) \o <<"-">> \o D(<<1, 1, 1, 1>>) \o <<"-">>
    \o D(<<1, 1, 1, 1>>) \o <<"-">> \o D(<<1, 1, 1, 1>>)

ParseNumbers ==
    {Number16, NumberDashed, Vector2,
     Slice(Number16, 1, 12), Slice(Number16, 1, 13),
     Number16 \o D(<<1, 1, 1>>), Number16 \o D(<<1, 1, 1, 1>>),
     <<"a", "b">>, <<>>}

ParseMonths ==
    {<<>>, D(<<5>>), D(<<1, 2>>), D(<<1, 3>>), D(<<0>>), D(<<0, 1, 2>>),
     <<"+", "5">>, <<"-", "1">>, <<"+">>, <<"a", "b">>, <<"1", "_", "2">>}

ParseYears ==
    {<<>>, D(<<2, 5>>), D(<<3, 0>>), D(<<2, 0, 3, 5>>), D(<<2, 0, 1, 0>>),
     D(<<2, 0, 3>>), D(<<2, 0, 3, 0, 0>>), <<"a", "b", "c", "d">>,
     <<"+", "3">>, <<"+", "9", "9", "9">>, <<"2", "_", "3", "5">>}

ParseCvvs ==
    {<<>>, D(<<1, 2, 3>>), D(<<1, 2, 3, 4>>), D(<<1, 2>>),
     D(<<1, 2, 3, 4, 5>>), <<"1", "2", "a">>}

\* "4111-1111-1111-1111 | 13 | 25 | 123"
MonthExample == join(<<Sp(NumberDashed), Sp(D(<<1, 3>>)), Sp(D(<<2, 5>>)),
                       Sp(D(<<1, 2, 3>>))>>, "|")

\* number|month|year|cvv, fields bare or padded with blanks, and strings
\* with fewer or more segments
ParseInputs ==
    {join(<<n, m, y, c>>, "|") :
        n \in ParseNumbers, m \in ParseMonths, y \in ParseYears, c \in ParseCvvs}
    \cup {join(<<Sp(NumberDashed), Sp(m), Sp(y), Sp(c)>>, "|") :
        m \in ParseMonths, y \in ParseYears, c \in ParseCvvs}
    \cup {join(<<Number16, m, y, D(<<1, 2, 3>>), <<"x">>>>, "|") :
        m \in ParseMonths, y \in ParseYears}
    \cup {<<>>, Number16, join(<<Number16, D(<<1, 2>>)>>, "|"),
          join(<<Number16, D(<<1, 2>>), D(<<2, 0, 3, 5>>)>>, "|")}

InitParse ==
    /\ Idle
    /\ current_year \in CurrentYears
    /\ pending \in {[kind |-> "validate_card_format", arg |-> s] : s \in ParseInputs}

CallParse ==
    /\ pending.kind = "validate_card_format"
    /\ op' = [name |-> "validate_card_format", arg |-> pending.arg,
              result |-> validate_card_format(pending.arg, current_year)]
    /\ pending' = NoPending
    /\ UNCHANGED <<request_counts, clock, current_year, nCalls, thr, admitted, overlaps>>

SpecParse == InitParse /\ [][CallParse]_vars

\* the rules as the parser's contract lists them
Segments(raw) ==
    LET ps == split(raw, "|") IN [i \in 1..Len(ps) |-> strip(ps[i])]

BadSegments(raw) == Len(Segments(raw)) < 4

BadNumberLength(raw) ==
    LET n == Len(SelectSeq(Segments(raw)[1], IsDigit)) IN n < 13 \/ n > 19

MonthUnparsed(raw) == ~int(zfill(Segments(raw)[2], 2)).ok

MonthOutOfRange(raw) ==
    LET m == int(zfill(Segments(raw)[2], 2)) IN m.ok /\ (m.val < 1 \/ m.val > 12)

YearText(raw) ==
    LET y == Segments(raw)[3] IN IF Len(y) = 2 THEN <<"2", "0">> \o y ELSE y

YearUnparsed(raw) == ~int(YearText(raw)).ok

YearExpiredOrMisshapen(raw, this_year) ==
    /\ int(YearText(raw)).ok
    /\ (Len(YearText(raw)) # 4 \/ int(YearText(raw)).val < this_year)

BadCvv(raw) ==
    LET c == Segments(raw)[4]
    IN  ~(Len(c) \in 3..4 /\ \A i \in 1..Len(c) : IsDigit(c[i]))

\* the message of the first rule violated; monthFail and yearFail are the
\* messages for a month, a year that does not parse
FirstViolation(raw, this_year, monthFail, yearFail) ==
    IF BadSegments(raw) THEN "Invalid format"
    ELSE IF BadNumberLength(raw) THEN "Invalid card number length"
    ELSE IF MonthUnparsed(raw) THEN monthFail
    ELSE IF MonthOutOfRange(raw) THEN "Invalid month"
    ELSE IF YearUnparsed(raw) THEN yearFail
    ELSE IF YearExpiredOrMisshapen(raw, this_year) THEN "Invalid or expired year"
    ELSE IF BadCvv(raw) THEN "Invalid CVV"
    ELSE None

Rejected == op.name = "validate_card_format" /\ op.result.err # None

\* C6 as stated: a rejected input gets the message of the first rule it
\* violates, in the order segments, number length, month, year, CVV, where a
\* month that does not parse gets "Invalid month" and a year that does not
\* parse gets "Invalid or expired year"; no other message exists.
C6_MessagesAsStated ==
    Rejected =>
        /\ op.result.err = FirstViolation(op.arg, current_year,
                                          "Invalid month", "Invalid or expired year")
        /\ op.result.err \in {"Invalid format", "Invalid card number length",
                              "Invalid month", "Invalid or expired year",
                              "Invalid CVV"}

\* C6 amended: the same order of rules, but a month that does not parse as an
\* integer gets "Invalid month format" and a year that does not parse gets
\* "Invalid year format"; these seven messages are the only ones, and the
\* example with month 13 gets "Invalid month".
C6_MessagesAmended ==
    Rejected =>
        /\ op.result.err = FirstViolation(op.arg, current_year,
                                          "Invalid month format", "Invalid year format")
        /\ op.result.err \in {"Invalid format", "Invalid card number length",
                              "Invalid month", "Invalid month format",
                              "Invalid or expired year", "Invalid year format",
                              "Invalid CVV"}
        /\ (op.arg = MonthExample => op.result.err = "Invalid month")

\* a month that does not parse, and the message it gets
C6_Witness ==
    /\ Rejected
    /\ op.result.err = "Invalid month format"
    /\ ~BadSegments(op.arg)
    /\ MonthUnparsed(op.arg)

\* C7: a record returned as a success has a card_number of 13 to 19 digits,
\* a month of exactly 2 digits, a year of exactly 4 digits, a cvv of 3 or 4
\* digits, and original equal to the raw input.
C7_RecordInvariant ==
    (op.name = "validate_card_format" /\ op.result.err = None) =>
        LET r == op.result.rec
        IN  /\ AllDigits(r.card_number) /\ Len(r.card_number) \in 13..19
            /\ AllDigits(r.month) /\ Len(r.month) = 2
            /\ AllDigits(r.year) /\ Len(r.year) = 4
            /\ AllDigits(r.cvv) /\ Len(r.cvv) \in 3..4
            /\ r.original = op.arg

(***************************************************************************)
(* check_rate_limit  (index.py:19-35)                                      *)
(***************************************************************************)
RATE_LIMIT == 100

RATE_WINDOW == 3600

\* lines 28-29: the list comprehension
prune(times, now) == SelectSeq(times, LAMBDA t : now - t < RATE_WINDOW)

\* the mutant admits one request too many
over_limit_lax(times) == Len(times) > RATE_LIMIT

\* line 31
over_limit(times) == Len(times) >= RATE_LIMIT

\* the mutant records the request before it looks at the limit
check_rate_limit_eager(counts, ip, now) ==
    LET kept == Append(prune(counts[ip], now), now)
    IN  [counts |-> [counts EXCEPT ![ip] = kept],
         result |-> ~(Len(kept) > RATE_LIMIT)]

\* lines 24-35 run without interruption: the new request_counts and the
\* value returned
check_rate_limit(counts, ip, now) ==
    LET kept == prune(counts[ip], now)
    IN  IF over_limit(kept)
        THEN [counts |-> [counts EXCEPT ![ip] = kept], result |-> FALSE]
        ELSE [counts |-> [counts EXCEPT ![ip] = Append(kept, now)],
              result |-> TRUE]

(***************************************************************************)
(* SpecLimiter: calls of check_rate_limit one after the other, and the     *)
(* clock.  One client is busy enough to hit the limit, the other is not.   *)
(***************************************************************************)
MaxExtraCalls == 2

BusyKey == "10.0.0.1"

\* the busy client may go MaxExtraCalls calls beyond the limit; the quiet
\* client calls once
MayCall(ip) ==
    IF ip = BusyKey THEN nCalls[ip] < RATE_LIMIT + MaxExtraCalls
    ELSE nCalls[ip] = 0

\* the instants at which the clock is read after the start: the last one
\* inside and the first one outside the window that opened at 0
LaterTimes == {RATE_WINDOW - 1, RATE_WINDOW}

InitLimiter ==
    /\ Idle
    /\ current_year \in {2026}
    /\ pending = NoPending

Tick ==
    /\ clock' \in LaterTimes
    /\ clock' > clock
    /\ UNCHANGED <<request_counts, current_year, pending, op, nCalls, thr, admitted, overlaps>>

CallCheckRateLimit(ip) ==
    /\ MayCall(ip)
    /\ LET r == check_rate_limit(request_counts, ip, clock)
       IN  /\ request_counts' = r.counts
           /\ op' = [name |-> "check_rate_limit",
                     arg |-> [ip |-> ip, now |-> clock, before |-> request_counts],
                     result |-> r.result]
           /\ admitted' = IF r.result
                          THEN [admitted EXCEPT ![ip] = Append(@, clock)]
                          ELSE admitted
    /\ nCalls' = [nCalls EXCEPT ![ip] = @ + 1]
    /\ UNCHANGED <<clock, current_year, pending, thr, overlaps>>

NextLimiter == Tick \/ \E ip \in Keys : CallCheckRateLimit(ip)

SpecLimiter == InitLimiter /\ [][NextLimiter]_vars

Called == op.name = "check_rate_limit"

\* a recorded time is expired at `now` once a full window lies between them
Expired(t, now) == now - t >= RATE_WINDOW

\* C1: for one client starting from an empty window, each of its first
\* RATE_LIMIT calls returns True; its call number RATE_LIMIT + 1 returns False
\* when made within one window of the first; and a call made when every
\* recorded time has expired returns True.
C1_HundredThenRejectThenReadmit ==
    Called =>
        LET k      == op.arg.ip
            before == op.arg.before[k]
        IN  /\ nCalls[k] <= RATE_LIMIT => op.result = TRUE
            /\ (nCalls[k] = RATE_LIMIT + 1
                /\ ~Expired(admitted[k][1], op.arg.now)) => op.result = FALSE
            /\ (\A i \in 1..Len(before) : Expired(before[i], op.arg.now))
                    => op.result = TRUE

\* the call after the rejected one, made a window later, is admitted
C1_Witness ==
    /\ Called
    /\ nCalls[op.arg.ip] = RATE_LIMIT + 2
    /\ Len(op.arg.before[op.arg.ip]) = RATE_LIMIT
    /\ op.arg.now = RATE_WINDOW
    /\ op.result = TRUE

\* C9: a call for k that returns False leaves k's window as it was minus the
\* expired entries, a call that returns True leaves it as that plus one entry
\* `now` at the end, and the windows of all other keys are as before.
C9_Frame ==
    Called =>
        LET k     == op.arg.ip
            old   == op.arg.before
            alive == SelectSeq(old[k], LAMBDA t : ~Expired(t, op.arg.now))
        IN  /\ op.result = FALSE => request_counts[k] = alive
            /\ op.result = TRUE => request_counts[k] = alive \o <<op.arg.now>>
            /\ \A j \in Keys \ {k} : request_counts[j] = old[j]

\* a rejected call while the other key's window is not empty
C9_Witness ==
    /\ Called
    /\ op.result = FALSE
    /\ \E j \in Keys \ {op.arg.ip} : request_counts[j] # <<>>
    /\ Len(request_counts[op.arg.ip]) = RATE_LIMIT

(***************************************************************************)
(* SpecThreads: check_rate_limit run by two worker threads of the          *)
(* development server (app.run serves each request in its own thread).     *)
(* No lock guards request_counts, so a thread can be preempted between any *)
(* two of: reading the clock (26), building the pruned list (28-29 right   *)
(* hand side), storing it (28), testing its length (31), appending (34).   *)
(***************************************************************************)
InitThreads ==
    /\ Idle
    /\ current_year \in {2026}
    /\ pending = NoPending

\* the clock moves once, a full window ahead
TickWindow ==
    /\ clock = 0
    /\ clock' = RATE_WINDOW
    /\ UNCHANGED <<request_counts, current_year, pending, op, nCalls, thr, admitted, overlaps>>

\* how many requests may arrive while another one is being checked
MaxOverlaps == 1

Busy(t) == \E u \in Threads \ {t} : thr[u].pc # "idle"

\* line 26
Enter(t, ip) ==
    /\ thr[t].pc = "idle"
    /\ MayCall(ip)
    /\ Busy(t) => overlaps < MaxOverlaps
    /\ overlaps' = IF Busy(t) THEN overlaps + 1 ELSE overlaps
    /\ thr' = [thr EXCEPT ![t] = [pc |-> "filter", ip |-> ip, now |-> clock,
                                   kept |-> <<>>]]
    /\ nCalls' = [nCalls EXCEPT ![ip] = @ + 1]
    /\ UNCHANGED <<request_counts, clock, current_year, pending, op, admitted>>

\* lines 28-29, right hand side
Filter(t) ==
    /\ thr[t].pc = "filter"
    /\ thr' = [thr EXCEPT ![t].pc = "store",
                          ![t].kept = prune(request_counts[thr[t].ip], thr[t].now)]
    /\ UNCHANGED <<request_counts, clock, current_year, pending, op, nCalls, admitted, overlaps>>

\* line 28, the assignment
Store(t) ==
    /\ thr[t].pc = "store"
    /\ request_counts' = [request_counts EXCEPT ![thr[t].ip] = thr[t].kept]
    /\ thr' = [thr EXCEPT ![t].pc = "test", ![t].kept = <<>>]
    /\ UNCHANGED <<clock, current_year, pending, op, nCalls, admitted, overlaps>>

\* lines 31-32 when the limit is reached
TestReject(t) ==
    /\ thr[t].pc = "test"
    /\ over_limit(request_counts[thr[t].ip])
    /\ op' = [name |-> "check_rate_limit",
              arg |-> [ip |-> thr[t].ip, now |-> thr[t].now, before |-> request_counts],
              result |-> FALSE]
    /\ thr' = [thr EXCEPT ![t] = IdleThread]
    /\ UNCHANGED <<request_counts, clock, current_year, pending, nCalls, admitted, overlaps>>

\* line 31 when it is not
TestPass(t) ==
    /\ thr[t].pc = "test"
    /\ ~over_limit(request_counts[thr[t].ip])
    /\ thr' = [thr EXCEPT ![t].pc = "append"]
    /\ UNCHANGED <<request_counts, clock, current_year, pending, op, nCalls, admitted, overlaps>>

\* lines 34-35
AppendNow(t) ==
    /\ thr[t].pc = "append"
    /\ request_counts' = [request_counts EXCEPT ![thr[t].ip] = Append(@, thr[t].now)]
    /\ admitted' = [admitted EXCEPT ![thr[t].ip] = Append(@, thr[t].now)]
    /\ op' = [name |-> "check_rate_limit",
              arg |-> [ip |-> thr[t].ip, now |-> thr[t].now, before |-> request_counts],
              result |-> TRUE]
    /\ thr' = [thr EXCEPT ![t] = IdleThread]
    /\ UNCHANGED <<clock, current_year, pending, nCalls, overlaps>>

NextThreads ==
    \/ TickWindow
    \/ \E t \in Threads, ip \in Keys : Enter(t, ip)
    \/ \E t \in Threads : Filter(t)
    \/ \E t \in Threads : Store(t)
    \/ \E t \in Threads : TestReject(t)
    \/ \E t \in Threads : TestPass(t)
    \/ \E t \in Threads : AppendNow(t)

SpecThreads == InitThreads /\ [][NextThreads]_vars

Count(times, t) == Cardinality({i \in 1..Len(times) : times[i] = t})

\* the admitted calls of k in the window that ends at `at`
AdmittedWithin(k, at) ==
    Cardinality({i \in 1..Len(admitted[k]) :
                    admitted[k][i] <= at /\ ~Expired(admitted[k][i], at)})

Times(seq) == {seq[i] : i \in 1..Len(seq)}

C2_LimitKept ==
    \A k \in Keys :
        \A at \in Times(admitted[k]) : AdmittedWithin(k, at) <= RATE_LIMIT

C2_NothingLost ==
    \A k \in Keys :
        \A at \in Times(admitted[k]) :
            ~Expired(at, clock) =>
                Count(request_counts[k], at) >= Count(admitted[k], at)

\* C2: with calls for one key interleaving, the calls admitted for the key
\* within any one window never number more than RATE_LIMIT, and the time of
\* every admitted call that has not expired is in the key's window.
C2_AtomicPerKey == C2_LimitKept /\ C2_NothingLost

(***************************************************************************)
(* The POST handlers  (index.py:103-249)                                   *)
(* A handler takes request_counts, the caller's address, the clock and the *)
(* JSON body, and gives the new request_counts and the response.  A body   *)
(* key that is absent is modelled by its data.get default.                 *)
(***************************************************************************)
TooManyRequests ==
    [code |-> 429, body |-> [error |-> "Rate limit exceeded. Please try again later."]]

BadRequest(msg) == [code |-> 400, body |-> [error |-> msg]]

Ok(body) == [code |-> 200, body |-> body]

\* an exception that leaves the view function: Flask answers 500
ServerError == [code |-> 500, body |-> [error |-> "Internal Server Error"]]

\* lines 121-137 and 159-173: the ValidationResult of one card string
validation_result(card_data, this_year) ==
    LET v == validate_card_format(card_data, this_year)
    IN  IF v.err # None
        THEN [status |-> "unknown", message |-> v.err, original |-> card_data]
        ELSE IF luhn_check(v.rec.card_number)
        THEN [status |-> "live", message |-> "Valid card", original |-> card_data]
        ELSE [status |-> "dead", message |-> "Invalid card", original |-> card_data]

\* lines 103-137
validate_card(counts, ip, now, data, this_year) ==
    LET r == check_rate_limit(counts, ip, now)
    IN  [counts |-> r.counts,
         response |->
            IF ~r.result THEN TooManyRequests
            ELSE IF data.card = <<>> THEN BadRequest("No card data provided")
            ELSE Ok(validation_result(data.card, this_year))]

\* the mutant drops the cards that do not parse
batch_results_skipping(cards, this_year) ==
    LET all == [i \in 1..Len(cards) |-> validation_result(cards[i], this_year)]
    IN  SelectSeq(all, LAMBDA x : x.status # "unknown")

\* lines 156-173: the loop
batch_results(cards, this_year) ==
    [i \in 1..Len(cards) |-> validation_result(cards[i], this_year)]

\* the mutant looks at the body before it asks the limiter
validate_batch_body_first(counts, ip, now, data, this_year) ==
    IF data.cards = <<>> \/ Len(data.cards) > 100
    THEN [counts |-> counts, response |-> BadRequest("Invalid batch size (max 100)")]
    ELSE LET r == check_rate_limit(counts, ip, now)
         IN  [counts |-> r.counts,
              response |-> IF ~r.result THEN TooManyRequests
                           ELSE Ok([results |-> batch_results(data.cards, this_year)])]

\* lines 139-175
validate_batch(counts, ip, now, data, this_year) ==
    LET r == check_rate_limit(counts, ip, now)
    IN  [counts |-> r.counts,
         response |->
            IF ~r.result THEN TooManyRequests
            ELSE IF data.cards = <<>> \/ Len(data.cards) > 100
            THEN BadRequest("Invalid batch size (max 100)")
            ELSE Ok([results |-> batch_results(data.cards, this_year)])]

\* str(n) for n >= 0
RECURSIVE IntStr(_)
IntStr(n) ==
    IF n < 10 THEN <<DigitStr(n)>>
    ELSE IntStr(n \div 10) \o <<DigitStr(n % 10)>>

\* the values random.randint is taken to return: every RandStep-th digit, and
\* the two ends of the ranges of month, year and CVV
RandStep == 5

RandDigits == {d \in 0..9 : d % RandStep = 0}

RandMonths == {1, 12}

RandYears(this_year) == {this_year + 1, this_year + 7}

RandCvvs == {100, 999}

IsPlaceholder(c) == LowerChar(c) = "x"

\* the positions of card_num that lines 209 and 215 fill with a random digit
DrawPositions(bin_pattern) ==
    {i \in 1..Len(bin_pattern) : IsPlaceholder(bin_pattern[i])}
    \cup ((Len(bin_pattern) + 1)..15)

\* lines 206-215, with rnd[i] the digit drawn for position i
gen_card_num(bin_pattern, rnd) ==
    LET n == IF Len(bin_pattern) < 15 THEN 15 ELSE Len(bin_pattern)
    IN  [i \in 1..n |->
            IF i \in DrawPositions(bin_pattern) THEN DigitStr(rnd[i])
            ELSE bin_pattern[i]]

\* lines 219-225
RECURSIVE gen_total(_, _)
gen_total(card_num, k) ==
    IF k > Len(card_num) THEN 0
    ELSE LET d == DigitVal(card_num[k])
             w == IF (k - 1) % 2 = 0
                  THEN (IF 2 * d > 9 THEN 2 * d - 9 ELSE 2 * d)
                  ELSE d
         IN  w + gen_total(card_num, k + 1)

\* lines 218-227
gen_with_check_digit(card_num) ==
    card_num \o <<DigitStr((gen_total(card_num, 1) * 9) % 10)>>

\* lines 230-233
gen_months(month) ==
    IF lower(month) = <<"r", "n", "d">>
    THEN {zfill(IntStr(m), 2) : m \in RandMonths}
    ELSE {zfill(month, 2)}

\* lines 236-239
gen_years(year, this_year) ==
    IF lower(year) = <<"r", "n", "d">>
    THEN {IntStr(y) : y \in RandYears(this_year)}
    ELSE {IF Len(year) = 4 THEN year ELSE <<"2", "0">> \o year}

\* lines 242-245
gen_cvvs(cvv) ==
    IF lower(cvv) = <<"r", "n", "d">>
    THEN {IntStr(c) : c \in RandCvvs}
    ELSE {zfill(cvv, 3)}

\* int(digit) on line 220 raises when the pattern holds a character that is
\* neither a digit nor a placeholder
gen_raises(bin_pattern) ==
    \E i \in 1..Len(bin_pattern) :
        ~IsDigit(bin_pattern[i]) /\ ~IsPlaceholder(bin_pattern[i])

\* lines 205-247: the strings one turn of the loop can append
gen_one(data, this_year) ==
    {join(<<gen_with_check_digit(gen_card_num(data.bin, rnd)), m, y, c>>, "|") :
        rnd \in [DrawPositions(data.bin) -> RandDigits],
        m \in gen_months(data.month),
        y \in gen_years(data.year, this_year),
        c \in gen_cvvs(data.cvv)}

\* lines 188-249: the responses to an admitted request
gen_responses(data, this_year) ==
    IF data.bin = <<>> \/ Len(data.bin) < 6 THEN {BadRequest("Invalid BIN")}
    ELSE IF data.quantity < 1 \/ data.quantity > 10000
    THEN {BadRequest("Invalid quantity (1-10000)")}
    ELSE IF gen_raises(data.bin) THEN {ServerError}
    ELSE {Ok([cards |-> cs]) : cs \in [1..data.quantity -> gen_one(data, this_year)]}

\* lines 177-249: every outcome the random draws allow
generate_cards(counts, ip, now, data, this_year) ==
    LET r == check_rate_limit(counts, ip, now)
    IN  IF ~r.result THEN {[counts |-> r.counts, response |-> TooManyRequests]}
        ELSE {[counts |-> r.counts, response |-> x] : x \in gen_responses(data, this_year)}

(***************************************************************************)
(* SpecRequest: one POST to one of the three endpoints of a fresh server   *)
(***************************************************************************)
MaxBatch == 2

Rnd == <<"r", "n", "d">>

GenData(bin, quantity, month, year, cvv) ==
    [bin |-> bin, quantity |-> quantity, month |-> month, year |-> year, cvv |-> cvv]

Bin6 == D(<<4, 5, 3, 2, 0, 1>>)

Bin15 == D(<<4, 5>>) \o <<"x">> \o D(<<2, 0, 1>>) \o <<"X">>
         \o D(<<1, 1, 2, 8, 3, 0, 3, 6>>)

Bin15x == Slice(Vector1, 1, 14) \o <<"X">>

Bin16 == Number16

Bin16x == Slice(Number16, 1, 15) \o <<"x">>

Bin17 == Number16 \o D(<<7>>)

GenBodies ==
    {GenData(Bin6, 1, Rnd, Rnd, Rnd),
     GenData(Bin6, 1, <<"R", "N", "D">>, D(<<2, 0, 3, 0>>), D(<<7>>)),
     GenData(Bin15, 2, D(<<5>>), D(<<3, 0>>), D(<<1, 2, 3>>)),
     GenData(Bin16, 1, D(<<5>>), D(<<3, 0>>), D(<<1, 2, 3>>)),
     GenData(Bin16x, 1, D(<<5>>), D(<<3, 0>>), Rnd),
     GenData(Bin17, 1, D(<<1, 2>>), Rnd, D(<<1, 2, 3>>)),
     GenData(Slice(Bin6, 1, 5), 1, Rnd, Rnd, Rnd),
     GenData(<<>>, 1, Rnd, Rnd, Rnd),
     GenData(Slice(Bin6, 1, 5) \o <<"a">>, 1, Rnd, Rnd, Rnd),
     GenData(Bin15, 0, Rnd, Rnd, Rnd),
     GenData(Bin15, 10001, Rnd, Rnd, Rnd)}

LiveCard == join(<<Vector1, D(<<1, 2>>), D(<<2, 0, 3, 5>>), D(<<1, 2, 3>>)>>, "|")

DeadCard == join(<<Vector2, D(<<1, 2>>), D(<<3, 5>>), D(<<1, 2, 3, 4>>)>>, "|")

CardSamples == {LiveCard, DeadCard, MonthExample, <<>>}

ValidateBodies == {[card |-> c] : c \in CardSamples}

\* a batch of n cards, every third one malformed
LongBatch(n) ==
    [i \in 1..n |-> IF i % 3 = 0 THEN MonthExample
                    ELSE IF i % 3 = 1 THEN LiveCard ELSE DeadCard]

BatchBodies ==
    {[cards |-> cs] : cs \in UNION {[1..n -> CardSamples] : n \in 0..MaxBatch}}
    \cup {[cards |-> LongBatch(100)], [cards |-> LongBatch(101)]}

Requests(kind, bodies) ==
    {[kind |-> kind, arg |-> [ip |-> ip, data |-> d]] : ip \in Keys, d \in bodies}

InitRequest ==
    /\ Idle
    /\ current_year \in CurrentYears
    /\ pending \in Requests("validate_card", ValidateBodies)
                   \cup Requests("validate_batch", BatchBodies)
                   \cup Requests("generate_cards", GenBodies)

\* what a served request leaves in the history variables
Served(name, ip, data, out) ==
    /\ request_counts' = out.counts
    /\ op' = [name |-> name,
              arg |-> [ip |-> ip, now |-> clock, before |-> request_counts,
                       data |-> data],
              result |-> out.response]
    /\ nCalls' = [nCalls EXCEPT ![ip] = @ + 1]
    /\ admitted' = IF out.response.code # 429
                   THEN [admitted EXCEPT ![ip] = Append(@, clock)]
                   ELSE admitted

ServeValidate ==
    /\ pending.kind = "validate_card"
    /\ Served("validate_card", pending.arg.ip, pending.arg.data,
              validate_card(request_counts, pending.arg.ip, clock,
                            pending.arg.data, current_year))
    /\ pending' = NoPending
    /\ UNCHANGED <<clock, current_year, thr, overlaps>>

ServeBatch ==
    /\ pending.kind = "validate_batch"
    /\ Served("validate_batch", pending.arg.ip, pending.arg.data,
              validate_batch(request_counts, pending.arg.ip, clock,
                             pending.arg.data, current_year))
    /\ pending' = NoPending
    /\ UNCHANGED <<clock, current_year, thr, overlaps>>

ServeGenerate ==
    /\ pending.kind = "generate_cards"
    /\ \E out \in generate_cards(request_counts, pending.arg.ip, clock,
                                 pending.arg.data, current_year) :
            Served("generate_cards", pending.arg.ip, pending.arg.data, out)
    /\ pending' = NoPending
    /\ UNCHANGED <<clock, current_year, thr, overlaps>>

NextRequest == ServeValidate \/ ServeBatch \/ ServeGenerate

SpecRequest == InitRequest /\ [][NextRequest]_vars

\* the card number of an emitted record
NumberOf(card) == split(card, "|")[1]

\* C3: every record of a 200 response of generate carries a card number
\* that passes luhn_check.
C3_GeneratedPassLuhn ==
    (op.name = "generate_cards" /\ op.result.code = 200) =>
        \A i \in 1..Len(op.result.body.cards) :
            luhn_check(NumberOf(op.result.body.cards[i]))

\* the status the contract gives a card string
StatusOf(card, this_year) ==
    IF validate_card_format(card, this_year).err # None THEN "unknown"
    ELSE IF RefLuhn(validate_card_format(card, this_year).rec.card_number) THEN "live"
    ELSE "dead"

\* C8: an admitted validate-batch request with 1 to 100 cards is answered
\* 200 with one result per card, in order: results[i].original is cards[i] and
\* results[i].status is unknown, live or dead as cards[i] fails to parse,
\* parses and passes Luhn, or parses and fails Luhn.
C8_BatchKeepsOrderAndLength ==
    (/\ op.name = "validate_batch"
     /\ op.result.code # 429
     /\ Len(op.arg.data.cards) \in 1..100) =>
        LET cards == op.arg.data.cards
        IN  /\ op.result.code = 200
            /\ Len(op.result.body.results) = Len(cards)
            /\ \A i \in 1..Len(cards) :
                /\ op.result.body.results[i].original = cards[i]
                /\ op.result.body.results[i].status = StatusOf(cards[i], current_year)

\* a malformed card in front of a live one
C8_Witness ==
    /\ op.name = "validate_batch"
    /\ op.arg.data.cards = <<MonthExample, LiveCard>>
    /\ op.result.code = 200
    /\ op.result.body.results[1].status = "unknown"
    /\ op.result.body.results[2].status = "live"

(***************************************************************************)
(* SpecHTTP: requests to the three endpoints served one after the other,   *)
(* until the busy client is past its limit                                 *)
(***************************************************************************)
HttpValidateBodies == {[card |-> <<>>], [card |-> LiveCard]}

HttpBatchBodies == {[cards |-> <<>>], [cards |-> <<MonthExample, LiveCard>>]}

HttpGenBodies ==
    {GenData(Bin15x, 1, D(<<5>>), D(<<3, 0>>), D(<<1, 2, 3>>)),
     GenData(Slice(Bin6, 1, 5), 1, Rnd, Rnd, Rnd),
     GenData(Slice(Bin6, 1, 5) \o <<"a">>, 1, Rnd, Rnd, Rnd)}

\* the client whose requests are followed up to the limit and past it
HttpClients == {BusyKey}

InitHTTP ==
    /\ Idle
    /\ current_year \in {2026}
    /\ pending = NoPending

PostValidate(ip, data) ==
    /\ MayCall(ip)
    /\ Served("validate_card", ip, data,
              validate_card(request_counts, ip, clock, data, current_year))
    /\ UNCHANGED <<clock, current_year, pending, thr, overlaps>>

PostValidateBatch(ip, data) ==
    /\ MayCall(ip)
    /\ Served("validate_batch", ip, data,
              validate_batch(request_counts, ip, clock, data, current_year))
    /\ UNCHANGED <<clock, current_year, pending, thr, overlaps>>

PostGenerate(ip, data) ==
    /\ MayCall(ip)
    /\ \E out \in generate_cards(request_counts, ip, clock, data, current_year) :
            Served("generate_cards", ip, data, out)
    /\ UNCHANGED <<clock, current_year, pending, thr, overlaps>>

NextHTTP ==
    \/ TickWindow
    \/ \E ip \in HttpClients, data \in HttpValidateBodies : PostValidate(ip, data)
    \/ \E ip \in HttpClients, data \in HttpBatchBodies : PostValidateBatch(ip, data)
    \/ \E ip \in HttpClients, data \in HttpGenBodies : PostGenerate(ip, data)

SpecHTTP == InitHTTP /\ [][NextHTTP]_vars

HttpOp == op.name \in {"validate_card", "validate_batch", "generate_cards"}

\* C10: each endpoint asks the limiter once, before it looks at the body: a
\* request that finds the caller's window full is answered 429 and records
\* nothing, whatever its body; any other request, one answered 400 included,
\* records exactly one time `now`, and is never answered 429.
C10_LimiterFirstAndOnce ==
    HttpOp =>
        LET k     == op.arg.ip
            alive == SelectSeq(op.arg.before[k], LAMBDA t : ~Expired(t, op.arg.now))
        IN  IF Len(alive) >= RATE_LIMIT
            THEN /\ op.result.code = 429
                 /\ request_counts[k] = alive
            ELSE /\ op.result.code \in {200, 400, 500}
                 /\ request_counts[k] = alive \o <<op.arg.now>>

\* a request with a bad body, answered 400, whose time was recorded
C10_Witness ==
    /\ op.name = "validate_batch"
    /\ op.result.code = 400
    /\ op.arg.data.cards = <<>>
    /\ Len(request_counts[op.arg.ip]) = Len(op.arg.before[op.arg.ip]) + 1

====
